---- MODULE Spec2Model ----
(***************************************************************************)
(* State-machine model of dashboard.py: the persisted CSV file, the        *)
(* st.cache_data cache around load_and_preprocess_data, the module-level   *)
(* DataFrame df, the sidebar selections and the filtered frame with its    *)
(* KPIs.  One script run is: load (lines 69-125), then filter and KPIs     *)
(* (lines 149-206).  Streamlit reruns the script on every widget change.   *)
(*                                                                         *)
(* Timestamps are whole seconds since start_date (2025-01-01 00:00:00).    *)
(* A float number of minutes is the exact fraction [num, den]: seconds     *)
(* over 60.  A DataFrame is the sequence of its rows, in row order.        *)
(***************************************************************************)
EXTENDS Integers, Sequences, FiniteSets, TLC

VARIABLES file, cache, df, pc, path, sel, filtered_df, kpi

vars == <<file, cache, df, pc, path, sel, filtered_df, kpi>>

-----------------------------------------------------------------------------
(* Module-level tables of the program. *)

request_pages ==
    ("Scheduled Demo" :> "/scheduledemo.php") @@
    ("Promotional Event" :> "/event.php") @@
    ("Virtual Assistant" :> "/virtualassistant.php") @@
    ("Prototyping Solution" :> "/prototype.php")

job_types == {"Software Assistance", "AI Integration", "Custom Development", "Consulting"}

countries == {"US", "UK", "FR", "DE", "JP", "CN", "BR", "IN", "AU", "CA"}

product_mapping ==
    ("Scheduled Demo" :> "Demo Product") @@
    ("Promotional Event" :> "Event Product") @@
    ("Virtual Assistant" :> "VA Product") @@
    ("Prototyping Solution" :> "Prototype Product") @@
    ("Other" :> "General Product")

required_columns == {"timestamp", "ip_address", "page", "status_code", "country", "job_type"}

\* The columns generate_web_logs writes: the log_entry keys and request_type.
written_columns ==
    {"timestamp", "ip_address", "method", "page", "status_code", "country",
     "job_type", "request_type"}

revenue_mapping ==
    ("Scheduled Demo" :> 500) @@ ("Virtual Assistant" :> 300) @@
    ("Prototyping Solution" :> 1000)

conversion_types == {"Scheduled Demo", "Virtual Assistant", "Prototyping Solution"}

\* Seconds substituted for the missing gap of an address's first event.
FillNaGap == 3600

\* Minutes of inactivity above which a new session starts.
SessionGap == 30

-----------------------------------------------------------------------------
(* pandas values. *)

\* A missing value (NaN) in a column of strings.
NaN == "<NaN>"

\* A timestamp that pd.to_datetime(errors='coerce') could not parse.
NaT == 0 - 1

\* total_seconds() / 60: a float number of minutes, kept exact.
Minutes(secs) == [num |-> secs, den |-> 60]

\* q > n for a fraction q and an integer n.
FracGT(q, n) == q.num > n * q.den

\* lo <= q <= hi for a fraction q: Series.between, inclusive on both sides.
Between(q, lo, hi) == lo * q.den <= q.num /\ q.num <= hi * q.den

\* int(q) for a fraction q >= 0.
IntOf(q) == q.num \div q.den

NoneValue == [kind |-> "None", rows |-> <<>>]

Unset == [kind |-> "unset", rows |-> <<>>]

Frame(rows) == [kind |-> "frame", rows |-> rows]

NoFile == [exists |-> FALSE, columns |-> {}, rows |-> <<>>]

RECURSIVE SetToSeq(_)
SetToSeq(S) ==
    IF S = {} THEN <<>>
    ELSE LET x == CHOOSE y \in S : TRUE IN <<x>> \o SetToSeq(S \ {x})

Max(S) == CHOOSE x \in S : \A y \in S : y <= x

Min(S) == CHOOSE x \in S : \A y \in S : x <= y

RECURSIVE SumOver(_, _)
SumOver(f, S) ==
    IF S = {} THEN 0
    ELSE LET x == CHOOSE y \in S : TRUE IN f[x] + SumOver(f, S \ {x})

-----------------------------------------------------------------------------
(* Bounded input domains. *)

\* Records per generated log (num_records; the program passes 1000).
NumRecords == 2

\* Rows of a CSV file found at start.
MaxRows == 3

\* Addresses, in the lexicographic order sort_values compares them by.
IpOrder == <<"10.0.0.1", "10.0.0.2">>

IpRank(ip) == CHOOSE i \in 1..Len(IpOrder) : IpOrder[i] = ip

Ips == {IpOrder[i] : i \in 1..Len(IpOrder)}

\* What one iteration draws for (timestamp, page): offsets that give gaps of
\* exactly 30 min, 30 min + 1 s and an hour, a request page and a plain page.
GenDraws ==
    { <<1200, "/scheduledemo.php">>, <<3000, "/index.html">>,
      <<4801, "/scheduledemo.php">> }

GenCountries == {"US"}

GenJobTypes == {"Consulting"}

GenStatusCodes == {200}

RequestPageValues == {request_pages[k] : k \in DOMAIN request_pages}

\* df['page'].map({v: k ...}).fillna("Other")
RequestTypeOf(page) ==
    IF page \in RequestPageValues
    THEN CHOOSE k \in DOMAIN request_pages : request_pages[k] = page
    ELSE "Other"

\* One iteration of the loop of generate_web_logs: every log_entry it can draw,
\* with the request_type column line 64 adds to it.
LogEntries ==
    { [timestamp |-> d[1], ip_address |-> ip, method |-> "GET", page |-> d[2],
       status_code |-> sc, country |-> c,
       job_type |-> IF d[2] \in RequestPageValues THEN j ELSE "None",
       request_type |-> RequestTypeOf(d[2])] :
        d \in GenDraws, ip \in Ips, sc \in GenStatusCodes,
        c \in GenCountries, j \in GenJobTypes }

\* Every list of logs the loop can build.
GenLogs == [1..NumRecords -> LogEntries]

\* The frame is not written: the file stays as it was.
ToCsvNotWritten(logs) == file

\* df.to_csv("al_solutions_web_logs.csv", index=False)
ToCsv(logs) == [exists |-> TRUE, columns |-> written_columns, rows |-> logs]

-----------------------------------------------------------------------------
(* load_and_preprocess_data: reading the file. *)

\* pd.read_csv: a cell's text comes back as written, except that the text
\* "None" is read as a missing value by the pandas releases that list it among
\* the default NA strings (naNone) and as the string by the others.
ReadCsv(f, naNone) ==
    [i \in 1..Len(f.rows) |->
        [f.rows[i] EXCEPT !.job_type = IF @ = "None" /\ naNone THEN NaN ELSE @]]

\* pd.to_datetime(df['timestamp'], errors='coerce')
ToDatetime(rows) ==
    [i \in 1..Len(rows) |->
        [rows[i] EXCEPT !.timestamp = IF @ >= 0 THEN @ ELSE NaT]]

IsValidTime(r) == r.timestamp # NaT

\* df.dropna(subset=['timestamp'])
DropNa(rows) == SelectSeq(rows, IsValidTime)

-----------------------------------------------------------------------------
(* load_and_preprocess_data: the derived columns. *)

\* dt.hour
HourOf(t) == (t \div 3600) % 24

\* dt.isocalendar().week: 2025-01-01 is the Wednesday of ISO week 1.
WeekOf(t) == (((t \div 86400) + 2) \div 7) + 1

\* df['request_type'].map(product_mapping)
ProductOf(rt) == IF rt \in DOMAIN product_mapping THEN product_mapping[rt] ELSE NaN

\* a sorts no later than b under ['ip_address', 'timestamp'].
KeyLE(a, b) ==
    \/ IpRank(a.ip_address) < IpRank(b.ip_address)
    \/ a.ip_address = b.ip_address /\ a.timestamp <= b.timestamp

\* r placed after every row of the sorted s that sorts no later than it.
Insert(s, r) ==
    LET k == Cardinality({i \in 1..Len(s) : KeyLE(s[i], r)})
    IN  SubSeq(s, 1, k) \o <<r>> \o SubSeq(s, k + 1, Len(s))

\* A sort that ignores the timestamp.
RECURSIVE SortByAddressOnly(_)
SortByAddressOnly(rows) ==
    IF rows = <<>> THEN <<>>
    ELSE LET s == SortByAddressOnly(SubSeq(rows, 1, Len(rows) - 1))
             r == rows[Len(rows)]
             k == Cardinality({i \in 1..Len(s) :
                                  IpRank(s[i].ip_address) <= IpRank(r.ip_address)})
         IN  SubSeq(s, 1, k) \o <<r>> \o SubSeq(s, k + 1, Len(s))

\* df.sort_values(['ip_address', 'timestamp']): a stable sort on the two keys.
RECURSIVE SortValues(_)
SortValues(rows) ==
    IF rows = <<>> THEN <<>>
    ELSE Insert(SortValues(SubSeq(rows, 1, Len(rows) - 1)), rows[Len(rows)])

\* The gap filled with 0 instead of 3600 seconds.
TimeDiffFillZero(rows, i) ==
    IF i = 1 \/ rows[i - 1].ip_address # rows[i].ip_address
    THEN Minutes(0)
    ELSE Minutes(rows[i].timestamp - rows[i - 1].timestamp)

\* groupby('ip_address')['timestamp'].diff().dt.total_seconds().fillna(3600) / 60
TimeDiff(rows, i) ==
    IF i = 1 \/ rows[i - 1].ip_address # rows[i].ip_address
    THEN Minutes(FillNaGap)
    ELSE Minutes(rows[i].timestamp - rows[i - 1].timestamp)

\* A new session at a gap of 30 minutes or more.
NewSessionInclusive(time_diff) ==
    IF time_diff.num >= SessionGap * time_diff.den THEN 1 ELSE 0

\* (df['time_diff'] > 30).astype(int)
NewSession(time_diff) == IF FracGT(time_diff, SessionGap) THEN 1 ELSE 0

\* groupby('ip_address')['new_session'].cumsum(), at row i.
CumSum(rows, i) ==
    LET new == [j \in 1..Len(rows) |-> NewSession(TimeDiff(rows, j))]
    IN  SumOver(new, {j \in 1..i : rows[j].ip_address = rows[i].ip_address})

\* df['ip_address'] + '_' + df['session_id'].astype(str)
SessionId(ip, n) == ip \o "_" \o ToString(n)

\* Lines 82-93: the rows sorted, with every column derived before the join.
Annotate(rows) ==
    LET s == SortValues(rows)
    IN  [i \in 1..Len(s) |->
            [timestamp |-> s[i].timestamp, ip_address |-> s[i].ip_address,
             method |-> s[i].method, page |-> s[i].page,
             status_code |-> s[i].status_code, country |-> s[i].country,
             job_type |-> s[i].job_type, request_type |-> s[i].request_type,
             hour |-> HourOf(s[i].timestamp), week |-> WeekOf(s[i].timestamp),
             product_name |-> ProductOf(s[i].request_type),
             time_diff |-> TimeDiff(s, i),
             new_session |-> NewSession(TimeDiff(s, i)),
             session_id |-> SessionId(s[i].ip_address, CumSum(s, i))]]

\* The number of rows of the session, not of its distinct pages.
PagesCounted(rows, sid) ==
    Cardinality({i \in 1..Len(rows) : rows[i].session_id = sid})

\* pages_per_session=('page', 'nunique')
PagesPerSession(rows, sid) ==
    Cardinality({rows[i].page : i \in {j \in 1..Len(rows) : rows[j].session_id = sid}})

\* One summary row per event instead of one per session.
SessionStatsPerEvent(rows) ==
    { [session_id |-> rows[i].session_id, pages_per_session |-> i,
       session_duration |-> Minutes(0)] : i \in 1..Len(rows) }

\* groupby('session_id').agg(...).reset_index() with session_duration added,
\* cut to the three columns the merge uses.
SessionStats(rows) ==
    { [session_id |-> sid,
       pages_per_session |-> PagesPerSession(rows, sid),
       session_duration |->
           LET ts == {rows[i].timestamp :
                         i \in {j \in 1..Len(rows) : rows[j].session_id = sid}}
           IN  Minutes(Max(ts) - Min(ts))] :
        sid \in {rows[i].session_id : i \in 1..Len(rows)} }

Joined(r, st) ==
    [timestamp |-> r.timestamp, ip_address |-> r.ip_address,
     method |-> r.method, page |-> r.page, status_code |-> r.status_code,
     country |-> r.country, job_type |-> r.job_type,
     request_type |-> r.request_type, hour |-> r.hour, week |-> r.week,
     product_name |-> r.product_name, time_diff |-> r.time_diff,
     new_session |-> r.new_session, session_id |-> r.session_id,
     pages_per_session |-> st.pages_per_session,
     session_duration |-> st.session_duration]

\* df.merge(session_stats, on='session_id'): an inner join in the order of the
\* left rows, one output row per matching pair.
RECURSIVE Merge(_, _)
Merge(rows, stats) ==
    IF rows = <<>> THEN <<>>
    ELSE LET r == Head(rows)
             m == SetToSeq({st \in stats : st.session_id = r.session_id})
         IN  [j \in 1..Len(m) |-> Joined(r, m[j])] \o Merge(Tail(rows), stats)

\* Lines 82-103 (and their copy, lines 111-125).
Preprocess(rows) ==
    LET a == Annotate(rows) IN Merge(a, SessionStats(a))

-----------------------------------------------------------------------------
(* The sidebar controls and the filter (lines 149-186). *)

DefaultSel ==
    [country |-> {}, request_type |-> {}, job_type |-> {}, hours |-> {},
     products |-> {}, duration |-> "full"]

\* The selections a run is given: the defaults, or one control changed.
Selections ==
    { DefaultSel,
      [DefaultSel EXCEPT !.country = {"US"}],
      [DefaultSel EXCEPT !.request_type = {"Scheduled Demo"}],
      [DefaultSel EXCEPT !.job_type = {"Consulting"}],
      [DefaultSel EXCEPT !.hours = {0}],
      [DefaultSel EXCEPT !.products = {"Demo Product"}],
      [DefaultSel EXCEPT !.duration = "zero"] }

countries_to_filter(s) == IF s.country # {} THEN s.country ELSE countries

request_types_to_filter(s) ==
    IF s.request_type # {} THEN s.request_type ELSE DOMAIN request_pages \cup {"Other"}

job_types_to_filter(s) == IF s.job_type # {} THEN s.job_type ELSE job_types \cup {"None"}

hours_to_filter(s) == IF s.hours # {} THEN s.hours ELSE 0..23

products_to_filter(s) ==
    IF s.products # {} THEN s.products
    ELSE {product_mapping[k] : k \in DOMAIN product_mapping}

\* The slider's value: (0, int(df['session_duration'].max()) + 1) unless moved,
\* and (0, 0) when both handles are moved to the left end.
session_duration_range(rows, s) ==
    IF s.duration = "full"
    THEN <<0, IntOf(Minutes(Max({rows[i].session_duration.num : i \in 1..Len(rows)}))) + 1>>
    ELSE <<0, 0>>

\* The mask of lines 181-186 at one row.
Passes(r, rows, s) ==
    /\ r.country \in countries_to_filter(s)
    /\ r.request_type \in request_types_to_filter(s)
    /\ r.job_type \in job_types_to_filter(s)
    /\ r.hour \in hours_to_filter(s)
    /\ r.product_name \in products_to_filter(s)
    /\ Between(r.session_duration, session_duration_range(rows, s)[1],
               session_duration_range(rows, s)[2])

\* revenue = request_type.map(revenue_mapping).fillna(0)
RevenueOf(rt) == IF rt \in DOMAIN revenue_mapping THEN revenue_mapping[rt] ELSE 0

\* A row of filtered_df: the row of df with lines 197-198's two columns;
\* profit = revenue * 0.3 is kept as the exact fraction 3 * revenue / 10.
WithRevenue(r) ==
    [timestamp |-> r.timestamp, ip_address |-> r.ip_address,
     method |-> r.method, page |-> r.page, status_code |-> r.status_code,
     country |-> r.country, job_type |-> r.job_type,
     request_type |-> r.request_type, hour |-> r.hour, week |-> r.week,
     product_name |-> r.product_name, time_diff |-> r.time_diff,
     new_session |-> r.new_session, session_id |-> r.session_id,
     pages_per_session |-> r.pages_per_session,
     session_duration |-> r.session_duration,
     revenue |-> RevenueOf(r.request_type),
     profit |-> [num |-> 3 * RevenueOf(r.request_type), den |-> 10]]

\* filtered_df after line 198.
RECURSIVE FilterRows(_, _, _)
FilterRows(todo, rows, s) ==
    IF todo = <<>> THEN <<>>
    ELSE (IF Passes(Head(todo), rows, s) THEN <<WithRevenue(Head(todo))>> ELSE <<>>)
         \o FilterRows(Tail(todo), rows, s)

-----------------------------------------------------------------------------
(* The KPIs (lines 200-206). *)

\* Every request that is not "Other" counted as a conversion.
ConversionRequestsNotOther(frows) ==
    Cardinality({i \in 1..Len(frows) : frows[i].request_type # "Other"})

\* len(filtered_df[filtered_df['request_type'].isin([...])])
ConversionRequests(frows) ==
    Cardinality({i \in 1..Len(frows) : frows[i].request_type \in conversion_types})

\* (conversion_requests / total_requests * 100) if total_requests > 0 else 0
ConversionRate(conversion_requests, total_requests) ==
    IF total_requests > 0
    THEN [num |-> conversion_requests * 100, den |-> total_requests]
    ELSE [num |-> 0, den |-> 1]

\* job_stats.mean() if not job_stats.empty else 0: groupby drops missing keys.
AvgCallTarget(frows) ==
    LET named == {i \in 1..Len(frows) : frows[i].job_type \notin {"None", NaN}}
        groups == {frows[i].job_type : i \in named}
    IN  IF groups # {} THEN [num |-> Cardinality(named), den |-> Cardinality(groups)]
        ELSE [num |-> 0, den |-> 1]

Kpis(frows) ==
    LET revenue == [i \in 1..Len(frows) |-> frows[i].revenue]
    IN  [conversion_requests |-> ConversionRequests(frows),
         total_requests |-> Len(frows),
         conversion_rate |-> ConversionRate(ConversionRequests(frows), Len(frows)),
         total_revenue |-> SumOver(revenue, 1..Len(frows)),
         total_profit |-> [num |-> 3 * SumOver(revenue, 1..Len(frows)), den |-> 10],
         avg_call_target |-> AvgCallTarget(frows)]

NoKpi == Kpis(<<>>)

-----------------------------------------------------------------------------
(* The files found at start. *)

SeqsUpTo(S, n) == UNION {[1..k -> S] : k \in 1..n}

\* Rows that vary address, time and page, the session computation's inputs:
\* gaps of 0, 20 min, exactly 30 min, 30 min + 1 s and more.
SegRows ==
    { [timestamp |-> d[1], ip_address |-> ip, method |-> "GET", page |-> d[2],
       status_code |-> 200, country |-> "US", job_type |-> "Consulting",
       request_type |-> RequestTypeOf(d[2])] :
        ip \in Ips,
        d \in { <<0, "/scheduledemo.php">>, <<1200, "/event.php">>,
                <<3000, "/scheduledemo.php">>, <<4801, "/event.php">> } }

\* Rows that vary what the filters and the KPIs read: page (and with it the
\* request type and the job type), country (one outside the program's list),
\* hour, session duration, and a timestamp that does not parse.
FilterRowSet ==
    { [timestamp |-> d[1], ip_address |-> IpOrder[1], method |-> "GET", page |-> d[2],
       status_code |-> 200, country |-> d[3],
       job_type |-> IF d[2] \in RequestPageValues THEN "Consulting" ELSE "None",
       request_type |-> RequestTypeOf(d[2])] :
        d \in { <<3000, "/scheduledemo.php", "US">>, <<3000, "/scheduledemo.php", "ES">>,
                <<4800, "/event.php", "US">>, <<4800, "/event.php", "ES">>,
                <<3000, "/index.html", "US">>, <<3000, "/index.html", "ES">>,
                <<4800, "/scheduledemo.php", "US">>,
                <<NaT, "/scheduledemo.php", "US">> } }

\* A file that lacks a required column.
InvalidFiles(rowset) ==
    { [exists |-> TRUE, columns |-> written_columns \ {"country"},
       rows |-> <<[r EXCEPT !.country = NaN]>>] : r \in rowset }

\* A file of the documented shape: every required column, no request_type.
BareFiles(rowset) ==
    { [exists |-> TRUE, columns |-> required_columns \cup {"method"},
       rows |-> <<[r EXCEPT !.request_type = NaN]>>] : r \in rowset }

\* A file with the columns generate_web_logs writes.
FullFiles(rowset) ==
    { [exists |-> TRUE, columns |-> written_columns, rows |-> rs] :
        rs \in SeqsUpTo(rowset, MaxRows) }

Files(rowset) ==
    {NoFile} \cup FullFiles(rowset)
    \cup InvalidFiles({CHOOSE r \in rowset : TRUE})
    \cup BareFiles({CHOOSE r \in rowset : TRUE})

-----------------------------------------------------------------------------
(* The script run. *)

InitWith(files) ==
    /\ file \in files
    /\ cache = [hit |-> FALSE, value |-> Unset]
    /\ df = Unset
    /\ pc = "start"
    /\ path = "none"
    /\ sel = DefaultSel
    /\ filtered_df = <<>>
    /\ kpi = NoKpi

Init == InitWith(Files(FilterRowSet))

SegInit == InitWith(Files(SegRows))

\* Lines 149-206 on the frame d with the controls at s.  The slider's bounds
\* take int() of the maximum duration, which is NaN for a frame without rows:
\* the run ends there with a ValueError.
Render(d, s) ==
    /\ sel' = s
    /\ IF d.rows = <<>>
       THEN pc' = "crashed" /\ UNCHANGED <<filtered_df, kpi>>
       ELSE /\ pc' = "rendered"
            /\ filtered_df' = FilterRows(d.rows, d.rows, s)
            /\ kpi' = Kpis(FilterRows(d.rows, d.rows, s))

\* First run, no file: load_and_preprocess_data generates (line 79).
RunGenerate ==
    /\ pc = "start" /\ ~cache.hit /\ ~file.exists
    /\ \E logs \in GenLogs :
        /\ file' = ToCsv(logs)
        /\ df' = Frame(Preprocess(logs))
        /\ cache' = [hit |-> TRUE, value |-> Frame(Preprocess(logs))]
    /\ path' = "generate"
    /\ Render(df', sel)

\* First run, a file with the required columns and request_type (lines 72-77).
RunLoad ==
    /\ pc = "start" /\ ~cache.hit /\ file.exists
    /\ required_columns \subseteq file.columns
    /\ "request_type" \in file.columns
    /\ \E naNone \in BOOLEAN :
        df' = Frame(Preprocess(DropNa(ToDatetime(ReadCsv(file, naNone)))))
    /\ cache' = [hit |-> TRUE, value |-> df']
    /\ path' = "load"
    /\ Render(df', sel)
    /\ UNCHANGED file

\* First run, a file with the required columns and no request_type: line 86
\* reads df['request_type'] and raises KeyError; nothing is cached.
RunLoadKeyError ==
    /\ pc = "start" /\ ~cache.hit /\ file.exists
    /\ required_columns \subseteq file.columns
    /\ "request_type" \notin file.columns
    /\ pc' = "crashed"
    /\ path' = "failed"
    /\ UNCHANGED <<file, cache, df, sel, filtered_df, kpi>>

\* First run, a file that lacks a required column: the function returns None,
\* which is cached, and lines 107-125 generate.
RunRegenerate ==
    /\ pc = "start" /\ ~cache.hit /\ file.exists
    /\ ~(required_columns \subseteq file.columns)
    /\ cache' = [hit |-> TRUE, value |-> NoneValue]
    /\ \E logs \in GenLogs :
        /\ file' = ToCsv(logs)
        /\ df' = Frame(Preprocess(logs))
    /\ path' = "regenerate"
    /\ Render(df', sel)

\* A rerun after a widget change: the cached frame is returned.
RerunCachedFrame ==
    /\ pc = "rendered" /\ cache.hit /\ cache.value.kind = "frame"
    /\ df' = cache.value
    /\ \E s \in Selections : Render(df', s)
    /\ UNCHANGED <<file, cache, path>>

\* A rerun after a widget change: the cached None is returned and lines
\* 107-125 generate again.
RerunCachedNone ==
    /\ pc = "rendered" /\ cache.hit /\ cache.value.kind = "None"
    /\ \E logs \in GenLogs :
        /\ file' = ToCsv(logs)
        /\ df' = Frame(Preprocess(logs))
    /\ path' = "regenerate"
    /\ \E s \in Selections : Render(df', s)
    /\ UNCHANGED cache

\* The server process ends and a new one starts: the cache, the module state
\* and the widget state are gone, the file stays.
Restart ==
    /\ pc # "start"
    /\ cache' = [hit |-> FALSE, value |-> Unset]
    /\ df' = Unset
    /\ pc' = "start"
    /\ sel' = DefaultSel
    /\ filtered_df' = <<>>
    /\ kpi' = NoKpi
    /\ UNCHANGED <<file, path>>

Next ==
    \/ RunGenerate
    \/ RunLoad
    \/ RunLoadKeyError
    \/ RunRegenerate
    \/ RerunCachedFrame
    \/ RerunCachedNone
    \/ Restart

Spec == Init /\ [][Next]_vars

SegSpec == SegInit /\ [][Next]_vars

-----------------------------------------------------------------------------
(* Vocabulary of the properties. *)

Loaded == df.kind = "frame"

Idx == 1..Len(df.rows)

SameAddress(i, j) == df.rows[i].ip_address = df.rows[j].ip_address

SameSession(i, j) == df.rows[i].session_id = df.rows[j].session_id

\* The session counter of row i, read back from its session_id.
Counter(i) ==
    CHOOSE n \in 0..(Len(df.rows) + 1) :
        df.rows[i].session_id = SessionId(df.rows[i].ip_address, n)

\* Row i is the first row of its address.
FirstOfAddress(i) == \A j \in Idx : j < i => ~SameAddress(i, j)

\* The rows of the file whose timestamp parses: the events a load reads.
InputIdx == {i \in 1..Len(file.rows) : file.rows[i].timestamp >= 0}

RawOf(r) == <<r.timestamp, r.ip_address, r.page, r.country, r.request_type>>

SessionIds == {df.rows[i].session_id : i \in Idx}

SessionSize == [sid \in SessionIds |-> Cardinality({i \in Idx : df.rows[i].session_id = sid})]

-----------------------------------------------------------------------------
(* Session segmentation. *)

\* C1 (as claimed): the first event of every address has session counter 0,
\* so its session_id is '<address>_0'.
C1_FirstEventIsSessionZero ==
    Loaded =>
        \A i \in Idx :
            FirstOfAddress(i) =>
                df.rows[i].session_id = SessionId(df.rows[i].ip_address, 0)

\* C1 (amended): the first event of every address is the address's earliest
\* event, gets the substitute gap of 60 minutes, which is compared with the
\* threshold like any gap, and so has session counter 1: its session_id is
\* '<address>_1', and no event of the address has a smaller counter.
C1_FirstEventIsSessionOne ==
    Loaded =>
        \A i \in Idx :
            /\ FirstOfAddress(i) =>
                /\ \A j \in Idx : SameAddress(i, j) =>
                                     df.rows[i].timestamp <= df.rows[j].timestamp
                /\ df.rows[i].time_diff = Minutes(FillNaGap)
                /\ df.rows[i].new_session = 1
                /\ df.rows[i].session_id = SessionId(df.rows[i].ip_address, 1)
            /\ Counter(i) >= 1

\* An address with a first event and a later event is loaded.
C1_Witness ==
    /\ Loaded
    /\ \E i, j \in Idx :
        /\ FirstOfAddress(i) /\ SameAddress(i, j)
        /\ df.rows[i].timestamp < df.rows[j].timestamp

\* C2: the rows of one address are adjacent and in timestamp order, and of two
\* consecutive events of an address the later has the earlier's counter plus 1
\* when the gap is strictly above 30 minutes, and the same counter otherwise.
C2_CounterStepsOnGap ==
    Loaded =>
        /\ \A i, j, k \in Idx : i < j /\ j < k /\ SameAddress(i, k) => SameAddress(i, j)
        /\ \A i \in Idx :
            (i + 1 \in Idx /\ SameAddress(i, i + 1)) =>
                LET gap == df.rows[i + 1].timestamp - df.rows[i].timestamp
                IN  /\ gap >= 0
                    /\ Counter(i + 1) =
                           Counter(i) + (IF gap > SessionGap * 60 THEN 1 ELSE 0)

\* One address with a gap of exactly 30 minutes (same session) followed by a
\* gap of 30 minutes and one second (next session).
C2_Witness ==
    /\ Loaded
    /\ \E i \in Idx :
        /\ i + 2 \in Idx /\ SameAddress(i, i + 1) /\ SameAddress(i, i + 2)
        /\ df.rows[i + 1].timestamp - df.rows[i].timestamp = SessionGap * 60
        /\ SameSession(i, i + 1)
        /\ df.rows[i + 2].timestamp - df.rows[i + 1].timestamp = SessionGap * 60 + 1
        /\ ~SameSession(i + 1, i + 2)

\* C9: of two sessions of an address the one with the smaller counter ends
\* strictly before the other starts, and the events of a session are adjacent
\* rows of the address's events in timestamp order.
C9_SessionsDoNotOverlap ==
    Loaded =>
        /\ \A i, j \in Idx :
            (SameAddress(i, j) /\ Counter(i) < Counter(j)) =>
                df.rows[i].timestamp < df.rows[j].timestamp
        /\ \A i, j \in Idx :
            (SameAddress(i, j) /\ i < j) =>
                df.rows[i].timestamp <= df.rows[j].timestamp
        /\ \A i, j, k \in Idx : (i < j /\ j < k /\ SameSession(i, k)) => SameSession(i, j)
        /\ \A i, j \in Idx : SameSession(i, j) => SameAddress(i, j)

\* An address with a session of two events and a later session.
C9_Witness ==
    /\ Loaded
    /\ \E i, j, k \in Idx :
        /\ i # j /\ SameSession(i, j)
        /\ SameAddress(i, k) /\ Counter(i) < Counter(k)

-----------------------------------------------------------------------------
(* Session aggregation and the join. *)

\* C4: the joined frame has one row per input event, each input event occurs
\* in it as often as in the input, and the sizes of the sessions add up to the
\* number of events.
C4_JoinIsLossless ==
    Loaded =>
        /\ Len(df.rows) = Cardinality(InputIdx)
        /\ \A i \in InputIdx :
            Cardinality({j \in Idx : RawOf(df.rows[j]) = RawOf(file.rows[i])})
                = Cardinality({k \in InputIdx : RawOf(file.rows[k]) = RawOf(file.rows[i])})
        /\ SumOver(SessionSize, SessionIds) = Cardinality(InputIdx)

\* A load with a session of two events and a session of one.
C4_Witness ==
    /\ Loaded
    /\ \E sid, one \in SessionIds : SessionSize[sid] = 2 /\ SessionSize[one] = 1

\* C5: every row carries the number of distinct pages of its session and the
\* session's latest minus earliest timestamp in minutes; a session of one
\* event has 1 page and duration 0.
C5_RowsCarrySessionStats ==
    Loaded =>
        \A i \in Idx :
            LET mine == {j \in Idx : SameSession(i, j)}
                ts == {df.rows[j].timestamp : j \in mine}
            IN  /\ df.rows[i].pages_per_session
                       = Cardinality({df.rows[j].page : j \in mine})
                /\ df.rows[i].session_duration.den = 60
                /\ df.rows[i].session_duration.num = Max(ts) - Min(ts)
                /\ Cardinality(mine) = 1 =>
                       /\ df.rows[i].pages_per_session = 1
                       /\ df.rows[i].session_duration.num = 0

\* Two events of an address 20 minutes apart on different pages: one session
\* of duration 20 minutes and 2 pages.
C5_Witness ==
    /\ Loaded
    /\ \E i, j \in Idx :
        /\ SameAddress(i, j) /\ SameSession(i, j)
        /\ df.rows[i].page # df.rows[j].page
        /\ df.rows[j].timestamp - df.rows[i].timestamp = 20 * 60
        /\ Cardinality({k \in Idx : SameSession(i, k)}) = 2
        /\ df.rows[i].session_duration = Minutes(20 * 60)
        /\ df.rows[i].pages_per_session = 2

-----------------------------------------------------------------------------
(* Filter and KPIs. *)

\* Row i of df passes every control that has a selection, and the slider.
PassesActive(i) ==
    LET r == df.rows[i]
    IN  /\ sel.country # {} => r.country \in sel.country
        /\ sel.request_type # {} => r.request_type \in sel.request_type
        /\ sel.job_type # {} => r.job_type \in sel.job_type
        /\ sel.hours # {} => r.hour \in sel.hours
        /\ sel.products # {} => r.product_name \in sel.products
        /\ Between(r.session_duration, session_duration_range(df.rows, sel)[1],
                   session_duration_range(df.rows, sel)[2])

\* C6 (as claimed): a control without a selection restricts nothing, so the
\* filtered frame holds every event that passes the controls that have one.
C6_EmptySelectionRestrictsNothing ==
    pc = "rendered" =>
        Len(filtered_df) = Cardinality({i \in Idx : PassesActive(i)})

\* C7: conversion_requests counts the filtered events of the three conversion
\* types, never more than the filtered count; conversion_rate is their share
\* in percent, within [0, 100], and 0 for an empty filtered frame.
C7_ConversionRateInRange ==
    pc = "rendered" =>
        LET conv == {j \in 1..Len(filtered_df) :
                        filtered_df[j].request_type \in
                            {"Scheduled Demo", "Virtual Assistant", "Prototyping Solution"}}
            rate == kpi.conversion_rate
        IN  /\ kpi.total_requests = Len(filtered_df)
            /\ kpi.conversion_requests = Cardinality(conv)
            /\ kpi.conversion_requests <= kpi.total_requests
            /\ rate.den > 0
            /\ 0 <= rate.num /\ rate.num <= 100 * rate.den
            /\ rate.num * Max({1, Len(filtered_df)}) = Cardinality(conv) * 100 * rate.den
            /\ Len(filtered_df) = 0 => rate = [num |-> 0, den |-> 1]

\* A loaded frame with events of which the selection leaves none.
C7_Witness ==
    /\ pc = "rendered"
    /\ df.rows # <<>>
    /\ filtered_df = <<>>
    /\ kpi.conversion_rate.num = 0

-----------------------------------------------------------------------------
(* Load paths, cache and file. *)

CompletedPaths == {"generate", "load", "regenerate"}

FileIsValid == file.exists /\ required_columns \subseteq file.columns

DerivedColumnsPresent(d) ==
    \A i \in 1..Len(d.rows) :
        {"hour", "week", "product_name", "session_id", "pages_per_session",
         "session_duration"} \subseteq DOMAIN d.rows[i]

\* C3 (as claimed): a first load takes the generate path without a file, the
\* load path with a file that has the required columns, the regenerate path
\* with a file that lacks one, and ends with the derived frame.
C3_ThreePathsAllComplete ==
    [][(pc = "start" /\ pc' # "start") =>
          /\ df'.kind = "frame" /\ DerivedColumnsPresent(df')
          /\ path' = (IF ~file.exists THEN "generate"
                      ELSE IF required_columns \subseteq file.columns THEN "load"
                      ELSE "regenerate")]_vars

\* C8 (as claimed): from one rendering to the next within a view session the
\* frame is the same.
C8_SnapshotStableAcrossReruns ==
    [][(pc = "rendered" /\ pc' = "rendered") => df' = df]_vars

\* C10: once a load has completed the file exists with every required column;
\* the next uncached load takes the load path; the load path leaves the file
\* as it is, and a run that generates leaves in it the records it generated.
C10_FileValidAfterLoad ==
    /\ [](path \in CompletedPaths => FileIsValid)
    /\ [][/\ (pc = "start" /\ pc' # "start" /\ path \in CompletedPaths) =>
                (path' = "load" /\ df'.kind = "frame")
          /\ (pc = "start" /\ pc' # "start" /\ path' = "load") => file' = file
          /\ (pc' # "start" /\ pc # "crashed" /\
                (cache'.value.kind = "None" \/ (pc = "start" /\ ~file.exists))) =>
                /\ path' \in {"generate", "regenerate"}
                /\ file'.exists /\ file'.columns = written_columns
                /\ Len(file'.rows) = NumRecords
                /\ df' = Frame(Preprocess(file'.rows))]_vars

\* A first run has loaded a file that an earlier process generated (only a
\* generated file holds the offset 4801 under Init).
C10_Witness ==
    /\ pc = "rendered" /\ path = "load"
    /\ \E i \in 1..Len(file.rows) : file.rows[i].timestamp = 4801

====
